---- MODULE Spec2Model ----
(***************************************************************************)
(* The Query API (Express server) and the Tool Server (MCP stdio server)   *)
(* of primevue-mcp, both reading data/combined.json.  The two are separate *)
(* processes that share nothing but that file, which neither writes: a     *)
(* behaviour follows one of them, chosen in Init.  The stages of the data  *)
(* pipeline that produce that file (Merger, Documentation Fetcher, Logic   *)
(* Signal Extractor, Token Extractor) are further processes, each run to   *)
(* completion on its own; they have specifications of their own.           *)
(*                                                                         *)
(* Strings are sequences of one-character strings, so that toLowerCase,    *)
(* includes, startsWith and template literals are computed, not assumed.   *)
(* JSON values are tagged: [t |-> type, v |-> payload]; an object's        *)
(* payload is the sequence of its entries in insertion order, which is     *)
(* the order of Object.keys and Object.entries.                            *)
(***************************************************************************)
EXTENDS Integers, Sequences, FiniteSets, TLC

VARIABLES
    server,      \* the process this behaviour follows: "api", "mcp" or a pipeline stage
    file,        \* data/combined.json on disk
    dataset,     \* Query API: module-level `dataset`
    cache,       \* Query API: module-level `cache` (three maps and the time stamps)
    now,         \* Date.now()
    mcpDataset,  \* Tool Server: module-level `dataset`
    apiLoaded,   \* history: the Query API has read and parsed the file
    mcpLoaded,   \* history: the Tool Server has read and parsed the file
    origin,      \* history: the filter value whose request stored each memoized key
    resp,        \* the last request answered, with its response
    sources,     \* data/api.json, docs.json, logic.json, tokens.json on disk
    merger,      \* Merger: position of main
    fetcher,     \* Documentation Fetcher: position of main, its locals, its requests
    extractor,   \* Logic Signal Extractor: node_modules/primevue, position and locals
    tokenizer    \* Token Extractor: the style files, position and locals

\* The state of the two extractors that read source text
extractorVars == <<extractor, tokenizer>>

\* The state of the pipeline stages
pipelineVars == <<sources, merger, fetcher, extractor, tokenizer>>

\* The state of the two servers
serverVars == <<dataset, cache, now, mcpDataset, apiLoaded, mcpLoaded, origin, resp>>

vars == <<server, file, dataset, cache, now, mcpDataset, apiLoaded, mcpLoaded, origin, resp,
          sources, merger, fetcher, extractor, tokenizer>>

Range(seq) == {seq[i] : i \in 1..Len(seq)}

---------------------------------------------------------------------------
(* Bounds of the model *)

\* The clock advances at most this many times.
MaxTicks == 2

---------------------------------------------------------------------------
(* Strings *)

UpperCase == <<"A","B","C","D","E","F","G","H","I","J","K","L","M",
               "N","O","P","Q","R","S","T","U","V","W","X","Y","Z">>
LowerCase == <<"a","b","c","d","e","f","g","h","i","j","k","l","m",
               "n","o","p","q","r","s","t","u","v","w","x","y","z">>

UpperToLower ==
    [c \in {UpperCase[i] : i \in 1..26} |-> LowerCase[CHOOSE i \in 1..26 : UpperCase[i] = c]]

toLowerCaseChar(c) == IF c \in DOMAIN UpperToLower THEN UpperToLower[c] ELSE c

\* String.prototype.toLowerCase
toLowerCase(s) == [i \in 1..Len(s) |-> toLowerCaseChar(s[i])]

\* String.prototype.includes
includes(s, term) ==
    \E i \in 0..(Len(s) - Len(term)) : SubSeq(s, i + 1, i + Len(term)) = term

\* String.prototype.startsWith
startsWith(s, prefix) ==
    Len(prefix) <= Len(s) /\ SubSeq(s, 1, Len(prefix)) = prefix

s_empty       == <<>>
s_tokens      == <<"_","t","o","k","e","n","s">>
s_title       == <<"t","i","t","l","e">>
s_description == <<"d","e","s","c","r","i","p","t","i","o","n">>
s_props       == <<"p","r","o","p","s">>
s_examples    == <<"e","x","a","m","p","l","e","s">>
s_logic       == <<"l","o","g","i","c">>
s_name        == <<"n","a","m","e">>
s_token       == <<"t","o","k","e","n">>
s_component   == <<"c","o","m","p","o","n","e","n","t">>
s_propColon   == <<"p","r","o","p",":">>
s_all         == <<"a","l","l">>
s_constructor == <<"c","o","n","s","t","r","u","c","t","o","r">>
s_toString    == <<"t","o","S","t","r","i","n","g">>
s_componentsColon == <<"c","o","m","p","o","n","e","n","t","s",":">>
s_tokensColon     == <<"t","o","k","e","n","s",":">>
s_searchColon     == <<"s","e","a","r","c","h",":">>
s_PrimeVue        == <<"P","r","i","m","e","V","u","e"," ">>
s_componentSuffix == <<" ","c","o","m","p","o","n","e","n","t">>
s_tokensUri       == <<"p","r","i","m","e","v","u","e",":","/","/","t","o","k","e","n","s">>
s_componentUri    == <<"p","r","i","m","e","v","u","e",":","/","/",
                       "c","o","m","p","o","n","e","n","t","/">>

---------------------------------------------------------------------------
(* JSON values and JavaScript property access *)

Undefined  == [t |-> "undefined", v |-> <<>>]
Function   == [t |-> "function", v |-> <<>>]
Null       == [t |-> "null", v |-> <<>>]
Str(s)     == [t |-> "string", v |-> s]
Obj(es)    == [t |-> "object", v |-> es]
Arr(items) == [t |-> "array", v |-> items]
Entry(key, val) == [k |-> key, v |-> val]

\* Object.keys of a plain object: its own keys, in insertion order
ObjectKeys(es) == [i \in 1..Len(es) |-> es[i].k]

HasOwn(es, key) == \E i \in 1..Len(es) : es[i].k = key

\* Members every plain object inherits from Object.prototype (two of them)
ObjectPrototypeKeys == {s_constructor, s_toString}

\* es[key] on the plain object JSON.parse returns: the own property, else the
\* inherited one, else undefined
Prop(es, key) ==
    IF HasOwn(es, key) THEN es[CHOOSE i \in 1..Len(es) : es[i].k = key].v
    ELSE IF key \in ObjectPrototypeKeys THEN Function
    ELSE Undefined

\* val?.[key] on any value
PropOf(val, key) ==
    IF val.t = "object" THEN Prop(val.v, key)
    ELSE IF val.t = "undefined" THEN Undefined
    ELSE IF key \in ObjectPrototypeKeys THEN Function
    ELSE Undefined

\* Object.keys(val || {})
KeysOf(val) == IF val.t = "object" THEN ObjectKeys(val.v) ELSE <<>>

\* ToBoolean
Truthy(val) ==
    \/ val.t \in {"object", "array", "function"}
    \/ val.t = "string" /\ Len(val.v) > 0

\* a || b
Or(a, b) == IF Truthy(a) THEN a ELSE b

\* typeof val === "object" && val !== null
IsObjectType(val) == val.t \in {"object", "array"}

\* val?.toLowerCase().includes(term), for the string or absent fields of a record
LowerIncludes(val, term) ==
    val.t = "string" /\ includes(toLowerCase(val.v), term)

\* !!val?.length
HasLength(val) == val.t \in {"array", "string"} /\ Len(val.v) > 0

---------------------------------------------------------------------------
(* Contents of data/combined.json *)

s_tab   == <<"t","a","b">>
s_Tab   == <<"T","a","b">>
s_TAB   == <<"T","A","B">>
s_chip  == <<"c","h","i","p">>
s_CHIP  == <<"C","H","I","P">>
s_zz    == <<"z","z">>
s_t     == <<"t">>
s_Props == <<"P","r","o","p","s">>
s_label == <<"l","a","b","e","l">>
s_type  == <<"a","n","y">>
s_code  == <<"<","b",">">>
s_tokenKey   == <<"-","-","p","-","t">>
s_TOKENS     == <<"_","T","O","K","E","N","S">>
s_tokenValue == <<"d","t","(","'","t","'",")">>

\* A combined document with the keys `tab` and `Tab`, a key in lower case only
\* (`chip`), an empty props map, an empty title, and the token map.
DatasetA ==
    << Entry(s_tab, Obj(<< Entry(s_title, Str(s_Tab)),
                           Entry(s_description, Str(s_all)),
                           Entry(s_examples, Arr(<<>>)),
                           Entry(s_props, Obj(<<>>)) >>)),
       Entry(s_Tab, Obj(<< Entry(s_title, Str(s_empty)),
                           Entry(s_examples, Arr(<< Str(s_code) >>)),
                           Entry(s_props, Obj(<< Entry(s_all, Str(s_type)) >>)) >>)),
       Entry(s_chip, Obj(<< Entry(s_description, Str(s_Tab)),
                            Entry(s_logic, Obj(<< Entry(s_name, Arr(<< Str(s_tab) >>)) >>)) >>)),
       Entry(s_tokens, Obj(<< Entry(s_tokenKey, Str(s_tokenValue)) >>)) >>

\* A combined document without token map, with a key in upper case only.
DatasetB ==
    << Entry(s_CHIP, Obj(<< Entry(s_title, Str(s_chip)),
                            Entry(s_props, Obj(<< Entry(s_label, Str(s_type)) >>)) >>)),
       Entry(s_tab, Obj(<< Entry(s_title, Str(s_all)),
                           Entry(s_examples, Arr(<< Str(s_code) >>)) >>)) >>

\* The file is missing or is no JSON (readFileSync or JSON.parse throws), or it
\* holds a document: `{}` as the Merger writes it from empty sources, or components.
Unreadable == [readable |-> FALSE, json |-> <<>>]
Document(es) == [readable |-> TRUE, json |-> es]

---------------------------------------------------------------------------
(* Query API: cache helpers and getDataset *)

ttl == 5 * 60 * 1000

\* The clock is read at StartTime and then every Tick milliseconds.
StartTime == ttl
Tick == ttl \div 2

EmptyMap == [key \in {} |-> Undefined]

MapSet(map, key, val) == [x \in DOMAIN map \cup {key} |-> IF x = key THEN val ELSE map[x]]

isCacheValid(timestamps, key, time) ==
    IF key \notin DOMAIN timestamps \/ timestamps[key] = 0 THEN FALSE
    ELSE time - timestamps[key] < ttl

\* A setCache that records no time stamp
setCacheUnstamped(c, which, key, val, time) ==
    [c EXCEPT ![which] = MapSet(c[which], key, val)]

\* The cache after setCache on the map named `which`
setCache(c, which, key, val, time) ==
    [c EXCEPT ![which] = MapSet(c[which], key, val),
              !.timestamps = MapSet(c.timestamps, key, time)]

\* getCachedOrCompute on the map named `which`: the result, whether it came
\* from the map, and the cache afterwards
getCachedOrCompute(c, which, key, computed, time) ==
    IF key \in DOMAIN c[which] /\ isCacheValid(c.timestamps, key, time)
    THEN [result |-> c[which][key], hit |-> TRUE, cache |-> c]
    ELSE [result |-> computed, hit |-> FALSE,
          cache |-> setCache(c, which, key, computed, time)]

\* getDataset of either server on its `dataset` variable `ds`: reads the file
\* when the variable holds no key
getDataset(ds, f) ==
    IF Len(ds) = 0
    THEN IF f.readable
         THEN [threw |-> FALSE, data |-> f.json, read |-> TRUE]
         ELSE [threw |-> TRUE, data |-> ds, read |-> FALSE]
    ELSE [threw |-> FALSE, data |-> ds, read |-> FALSE]

---------------------------------------------------------------------------
(* Query API: what the three memoized handlers compute *)

Map(seq, F(_)) == [i \in 1..Len(seq) |-> F(seq[i])]

RECURSIVE Flatten(_)
Flatten(seqs) == IF Len(seqs) = 0 THEN <<>> ELSE Head(seqs) \o Flatten(Tail(seqs))

componentKeysUnfiltered(data) == ObjectKeys(data)

\* Object.keys(data).filter((key) => key !== "_tokens")
componentKeys(data) == SelectSeq(ObjectKeys(data), LAMBDA key : key # s_tokens)

\* q ? `components:${q}` : "components:all"
componentsCacheKey(q) ==
    IF Truthy(q) THEN s_componentsColon \o q.v ELSE s_componentsColon \o s_all

\* q ? `tokens:${q}` : "tokens:all"
tokensCacheKey(q) ==
    IF Truthy(q) THEN s_tokensColon \o q.v ELSE s_tokensColon \o s_all

\* `search:${q}`
searchCacheKey(q) == s_searchColon \o q.v

standardSections == {s_title, s_description, s_props, s_examples}

\* The summary of one component in GET /mcp/components
componentSummary(data, key) ==
    LET component == Prop(data, key) IN
    [name        |-> key,
     title       |-> PropOf(component, s_title),
     description |-> PropOf(component, s_description),
     hasProps    |-> Truthy(PropOf(component, s_props)),
     hasExamples |-> HasLength(PropOf(component, s_examples)),
     sections    |-> SelectSeq(KeysOf(component),
                        LAMBDA k : k \notin standardSections
                                   /\ IsObjectType(PropOf(component, k)))]

\* The name, title or description of data[key] contains the lower-case term
componentMatches(data, key, term) ==
    LET component == Prop(data, key) IN
    \/ includes(toLowerCase(key), term)
    \/ LowerIncludes(PropOf(component, s_title), term)
    \/ LowerIncludes(PropOf(component, s_description), term)

\* The function GET /mcp/components memoizes
computeComponents(data, q) ==
    LET all == componentKeys(data)
        keys == IF Truthy(q)
                THEN SelectSeq(all, LAMBDA key : componentMatches(data, key, toLowerCase(q.v)))
                ELSE all
    IN Map(keys, LAMBDA key : componentSummary(data, key))

\* A token entry's key or string value contains the lower-case term
tokenMatches(entry, term) ==
    \/ includes(toLowerCase(entry.k), term)
    \/ LowerIncludes(entry.v, term)

\* The function GET /mcp/tokens memoizes
computeTokens(data, q) ==
    LET all == Or(Prop(data, s_tokens), Obj(<<>>))
        tokens == IF Truthy(q)
                  THEN Obj(SelectSeq(IF all.t = "object" THEN all.v ELSE <<>>,
                               LAMBDA e : tokenMatches(e, toLowerCase(q.v))))
                  ELSE all
    IN [count |-> Len(KeysOf(tokens)), tokens |-> tokens]

\* The `matches` of one component in GET /mcp/search
searchMatches(key, component, term) ==
    (IF includes(toLowerCase(key), term) THEN << s_name >> ELSE <<>>)
    \o (IF LowerIncludes(PropOf(component, s_title), term) THEN << s_title >> ELSE <<>>)
    \o (IF LowerIncludes(PropOf(component, s_description), term)
        THEN << s_description >> ELSE <<>>)
    \o (IF Truthy(PropOf(component, s_props))
        THEN Map(SelectSeq(KeysOf(PropOf(component, s_props)),
                           LAMBDA prop : includes(toLowerCase(prop), term)),
                 LAMBDA prop : s_propColon \o prop)
        ELSE <<>>)

\* The results pushed for one entry of the dataset
searchComponentResult(entry, term) ==
    IF entry.k = s_tokens \/ Len(searchMatches(entry.k, entry.v, term)) = 0 THEN <<>>
    ELSE << [type |-> s_component, name |-> entry.k,
             title |-> PropOf(entry.v, s_title),
             description |-> PropOf(entry.v, s_description),
             matches |-> searchMatches(entry.k, entry.v, term)] >>

\* The results pushed for the token map
searchTokenResults(data, term) ==
    IF Truthy(Prop(data, s_tokens))
    THEN Map(SelectSeq(KeysOf(Prop(data, s_tokens)),
                       LAMBDA key : tokenMatches(
                           Entry(key, PropOf(Prop(data, s_tokens), key)), term)),
             LAMBDA key : [type |-> s_token, name |-> key,
                           value |-> PropOf(Prop(data, s_tokens), key),
                           matches |-> << s_token >>])
    ELSE <<>>

\* The function GET /mcp/search memoizes
computeSearch(data, q) ==
    LET term == toLowerCase(q.v)
        results == Flatten(Map(data, LAMBDA entry : searchComponentResult(entry, term)))
                   \o searchTokenResults(data, term)
    IN [query |-> q, count |-> Len(results), results |-> results]

---------------------------------------------------------------------------
(* Responses *)

NoResponse ==
    [server |-> "none", op |-> "none", q |-> Undefined, name |-> s_empty,
     section |-> Undefined, status |-> "none", body |-> Undefined,
     hit |-> FALSE, read |-> FALSE]

---------------------------------------------------------------------------
(* Query API: the handlers *)

InternalServerError == [error |-> "Internal server error"]

\* A memoized handler: getDataset, then getCachedOrCompute on the map `which`;
\* a throw of getDataset is caught and answered 500
MemoizedHandler(op, which, q, key, computed) ==
    LET g == getDataset(dataset, file)
        r == getCachedOrCompute(cache, which, key, computed, now)
    IN /\ dataset' = g.data
       /\ apiLoaded' = (apiLoaded \/ g.read)
       /\ cache' = IF g.threw THEN cache ELSE r.cache
       /\ origin' = IF g.threw \/ r.hit THEN origin ELSE MapSet(origin, key, q)
       /\ resp' = IF g.threw
                  THEN [NoResponse EXCEPT !.server = "api", !.op = op, !.q = q,
                            !.status = "500", !.body = InternalServerError]
                  ELSE [NoResponse EXCEPT !.server = "api", !.op = op, !.q = q,
                            !.status = "200", !.body = r.result,
                            !.hit = r.hit, !.read = g.read]
       /\ UNCHANGED <<server, file, now, mcpDataset, mcpLoaded>>

\* GET /mcp/components
ListComponents(q) ==
    MemoizedHandler("components", "components", q, componentsCacheKey(q),
                    computeComponents(getDataset(dataset, file).data, q))

\* GET /mcp/tokens
GetTokens(q) ==
    MemoizedHandler("tokens", "tokens", q, tokensCacheKey(q),
                    computeTokens(getDataset(dataset, file).data, q))

\* SearchQuerySchema: q is a string of at least one character
SearchQueryValid(q) == q.t = "string" /\ Len(q.v) >= 1

\* GET /mcp/search
Search(q) ==
    IF SearchQueryValid(q)
    THEN MemoizedHandler("search", "search", q, searchCacheKey(q),
                         computeSearch(getDataset(dataset, file).data, q))
    ELSE /\ resp' = [NoResponse EXCEPT !.server = "api", !.op = "search", !.q = q,
                         !.status = "400",
                         !.body = [error |-> "Invalid query parameters"]]
         /\ UNCHANGED <<server, file, dataset, cache, now, mcpDataset, apiLoaded, mcpLoaded, origin>>

lookupExactOnly(data, name) == Prop(data, name)

\* data[name.toLowerCase()] || data[name]
lookupComponent(data, name) == Or(Prop(data, toLowerCase(name)), Prop(data, name))

\* comp[sectionKey] answered, or the 404 with the sections that are objects
sectionResponse(comp, section) ==
    LET sectionKey == toLowerCase(section.v) IN
    IF Truthy(PropOf(comp, sectionKey))
    THEN [status |-> "200", body |-> PropOf(comp, sectionKey)]
    ELSE [status |-> "404",
          body |-> [error |-> "Section not found",
                    available |-> SelectSeq(KeysOf(comp),
                        LAMBDA key : IsObjectType(PropOf(comp, key)))]]

\* The body of the handler of GET /mcp/component/:name after getDataset
componentResponse(data, name, section) ==
    LET comp == lookupComponent(data, name) IN
    IF ~Truthy(comp)
    THEN [status |-> "404",
          body |-> [error |-> "Component not found", available |-> componentKeys(data)]]
    ELSE IF Truthy(section) THEN sectionResponse(comp, section)
    ELSE [status |-> "200", body |-> comp]

\* GET /mcp/component/:name
GetComponent(name, section) ==
    LET g == getDataset(dataset, file)
        r == componentResponse(g.data, name, section)
    IN /\ dataset' = g.data
       /\ apiLoaded' = (apiLoaded \/ g.read)
       /\ resp' = IF g.threw
                  THEN [NoResponse EXCEPT !.server = "api", !.op = "component",
                            !.name = name, !.section = section,
                            !.status = "500", !.body = InternalServerError]
                  ELSE [NoResponse EXCEPT !.server = "api", !.op = "component",
                            !.name = name, !.section = section,
                            !.status = r.status, !.body = r.body, !.read = g.read]
       /\ UNCHANGED <<server, file, cache, now, mcpDataset, mcpLoaded, origin>>

\* The body of GET /cache/stats
cacheStats(c) ==
    [components |-> [size |-> Cardinality(DOMAIN c.components), keys |-> DOMAIN c.components],
     tokens     |-> [size |-> Cardinality(DOMAIN c.tokens), keys |-> DOMAIN c.tokens],
     search     |-> [size |-> Cardinality(DOMAIN c.search), keys |-> DOMAIN c.search],
     ttl        |-> ttl,
     totalEntries |-> Cardinality(DOMAIN c.components) + Cardinality(DOMAIN c.tokens)
                      + Cardinality(DOMAIN c.search)]

\* GET /cache/stats
CacheStats ==
    /\ resp' = [NoResponse EXCEPT !.server = "api", !.op = "stats",
                    !.status = "200", !.body = cacheStats(cache)]
    /\ UNCHANGED <<server, file, dataset, cache, now, mcpDataset, apiLoaded, mcpLoaded, origin>>

EmptyCache ==
    [components |-> EmptyMap, tokens |-> EmptyMap, search |-> EmptyMap,
     timestamps |-> EmptyMap]

\* A clear that leaves the search map and the time stamps as they are
CacheClearKeepsSearch ==
    /\ cache' = [cache EXCEPT !.components = EmptyMap, !.tokens = EmptyMap]
    /\ origin' = EmptyMap
    /\ resp' = [NoResponse EXCEPT !.server = "api", !.op = "clear", !.status = "200",
                    !.body = [message |-> "Cache cleared successfully"]]
    /\ UNCHANGED <<server, file, dataset, now, mcpDataset, apiLoaded, mcpLoaded>>

\* POST /cache/clear
CacheClear ==
    /\ cache' = EmptyCache
    /\ origin' = EmptyMap
    /\ resp' = [NoResponse EXCEPT !.server = "api", !.op = "clear", !.status = "200",
                    !.body = [message |-> "Cache cleared successfully"]]
    /\ UNCHANGED <<server, file, dataset, now, mcpDataset, apiLoaded, mcpLoaded>>

---------------------------------------------------------------------------
(* Tool Server *)

\* One entry of the resource listing
componentResource(data, name) ==
    [uri  |-> s_componentUri \o name,
     name |-> s_PrimeVue \o Or(PropOf(Prop(data, name), s_title), Str(name)).v,
     description |-> Or(PropOf(Prop(data, name), s_description),
                        Str(s_PrimeVue \o name \o s_componentSuffix)).v]

\* The handler of ListResourcesRequestSchema after getDataset
listResources(data) ==
    Map(componentKeys(data), LAMBDA name : componentResource(data, name))
    \o << [uri |-> s_tokensUri, name |-> "PrimeVue Design Tokens",
           description |-> "Global design tokens for PrimeVue components"] >>

\* uri.replace("primevue://component/", "") of a uri that starts with it
uriComponentName(uri) == SubSeq(uri, Len(s_componentUri) + 1, Len(uri))

\* The handler of ReadResourceRequestSchema after getDataset
readResource(data, uri) ==
    IF uri = s_tokensUri
    THEN [status |-> "result", body |-> Or(Prop(data, s_tokens), Obj(<<>>))]
    ELSE IF startsWith(uri, s_componentUri)
    THEN LET name == uriComponentName(uri)
             comp == lookupComponent(data, name)
         IN IF ~Truthy(comp)
            THEN [status |-> "error", body |-> [error |-> "Component not found"]]
            ELSE [status |-> "result", body |-> comp]
    ELSE [status |-> "error", body |-> [error |-> "Unknown resource"]]

\* searchComponents(data, query)
searchComponents(data, query) ==
    Map(SelectSeq(componentKeys(data),
                  LAMBDA key : componentMatches(data, key, toLowerCase(query))),
        LAMBDA key : [name |-> key,
                      title |-> PropOf(Prop(data, key), s_title),
                      description |-> PropOf(Prop(data, key), s_description),
                      hasProps |-> Truthy(PropOf(Prop(data, key), s_props)),
                      hasExamples |-> HasLength(PropOf(Prop(data, key), s_examples))])

FirstTen(seq) == SubSeq(seq, 1, IF Len(seq) < 10 THEN Len(seq) ELSE 10)

\* getComponent(data, name)
getComponent(data, name) ==
    LET comp == lookupComponent(data, name) IN
    IF ~Truthy(comp)
    THEN [status |-> "error",
          body |-> [error |-> "Component not found",
                    available |-> FirstTen(componentKeys(data))]]
    ELSE [status |-> "result", body |-> comp]

\* searchTokens(data, query)
searchTokens(data, query) ==
    LET tokens == Or(Prop(data, s_tokens), Obj(<<>>))
        filtered == SelectSeq(IF tokens.t = "object" THEN tokens.v ELSE <<>>,
                              LAMBDA e : tokenMatches(e, toLowerCase(query)))
    IN [query |-> query, count |-> Len(filtered), tokens |-> Obj(filtered)]

\* listComponents(data)
listComponents(data) ==
    LET components == componentKeys(data)
        tokenCount == IF Truthy(Prop(data, s_tokens))
                      THEN Len(KeysOf(Prop(data, s_tokens))) ELSE 0
    IN [stats |-> [components |-> Len(components), tokens |-> tokenCount,
                   total |-> Len(components) + tokenCount],
        components |-> Map(components,
            LAMBDA name : [name |-> name,
                           title |-> PropOf(Prop(data, name), s_title),
                           description |-> PropOf(Prop(data, name), s_description)])]

\* args?.query || ""
queryArgument(arg) == IF Truthy(arg) THEN arg.v ELSE s_empty

\* The switch of the handler of CallToolRequestSchema after getDataset
callTool(data, tool, arg) ==
    CASE tool = "search_components" ->
           [status |-> "result",
            body |-> [query |-> queryArgument(arg),
                      count |-> Len(searchComponents(data, queryArgument(arg))),
                      results |-> searchComponents(data, queryArgument(arg))]]
      [] tool = "get_component" ->
           IF ~Truthy(arg)
           THEN [status |-> "error", body |-> [error |-> "Component name is required"]]
           ELSE getComponent(data, arg.v)
      [] tool = "search_tokens" ->
           [status |-> "result", body |-> searchTokens(data, queryArgument(arg))]
      [] tool = "list_components" ->
           [status |-> "result", body |-> listComponents(data)]
      [] OTHER -> [status |-> "error", body |-> [error |-> "Unknown tool"]]

\* A request handler of the Tool Server: getDataset, whose throw fails the
\* request, then the handler's answer
ToolServerHandler(op, arg, answer) ==
    LET g == getDataset(mcpDataset, file) IN
    /\ mcpDataset' = g.data
    /\ mcpLoaded' = (mcpLoaded \/ g.read)
    /\ resp' = IF g.threw
               THEN [NoResponse EXCEPT !.server = "mcp", !.op = op, !.q = arg,
                         !.status = "error", !.body = [error |-> "Failed to load dataset"]]
               ELSE [NoResponse EXCEPT !.server = "mcp", !.op = op, !.q = arg,
                         !.status = answer.status, !.body = answer.body,
                         !.read = g.read]
    /\ UNCHANGED <<server, file, dataset, cache, now, apiLoaded, origin>>

ListResources ==
    ToolServerHandler("resources/list", Undefined,
        [status |-> "result", body |-> listResources(getDataset(mcpDataset, file).data)])

ReadResource(uri) ==
    ToolServerHandler("resources/read", Str(uri),
        readResource(getDataset(mcpDataset, file).data, uri))

CallTool(tool, arg) ==
    ToolServerHandler(tool, arg, callTool(getDataset(mcpDataset, file).data, tool, arg))

---------------------------------------------------------------------------
(* Merger *)

s_methods == <<"m","e","t","h","o","d","s">>

\* An input file of a pipeline stage: absent, no JSON text, or a JSON object
MissingFile   == [kind |-> "missing", json |-> <<>>]
MalformedFile == [kind |-> "malformed", json |-> <<>>]
JsonFile(es)  == [kind |-> "json", json |-> es]

\* readJsonSafe: {} when the file does not exist or JSON.parse throws
readJsonSafe(f) == IF f.kind = "json" THEN f.json ELSE <<>>

\* Array.from(new Set(seq)): the distinct values in the order of first occurrence
RECURSIVE NewSet(_)
NewSet(seq) ==
    IF Len(seq) = 0 THEN <<>>
    ELSE LET front == NewSet(SubSeq(seq, 1, Len(seq) - 1))
             last  == seq[Len(seq)]
         IN IF \E i \in 1..Len(front) : front[i] = last THEN front ELSE Append(front, last)

\* obj[key] = val: an existing key keeps its place, a new one comes last
SetProp(es, key, val) ==
    IF HasOwn(es, key)
    THEN [i \in 1..Len(es) |-> IF es[i].k = key THEN Entry(key, val) ELSE es[i]]
    ELSE Append(es, Entry(key, val))

\* { ...target, ...more } on entry sequences
RECURSIVE SpreadInto(_, _)
SpreadInto(es, more) ==
    IF Len(more) = 0 THEN es
    ELSE SpreadInto(SetProp(es, Head(more).k, Head(more).v), Tail(more))

\* The own enumerable properties `...val` copies; the records of the sources
\* are objects, and undefined and functions have none
SpreadEntries(val) == IF val.t = "object" THEN val.v ELSE <<>>

\* A key set without the keys of the logic source
allKeysApiDocs(api, docs, logic) == NewSet(ObjectKeys(api) \o ObjectKeys(docs))

\* new Set([...Object.keys(api), ...Object.keys(docs), ...Object.keys(logic)])
allKeys(api, docs, logic) ==
    NewSet(ObjectKeys(api) \o ObjectKeys(docs) \o ObjectKeys(logic))

\* A merge in which the docs fields come last
mergedRecordDocsLast(api, docs, logic, key) ==
    SpreadInto(SpreadInto(SpreadInto(<<>>,
        SpreadEntries(Or(Prop(api, key), Obj(<<>>)))),
        SpreadEntries(Or(Prop(docs, key), Obj(<<>>)))),
        IF Truthy(Prop(logic, key)) THEN << Entry(s_logic, Prop(logic, key)) >> ELSE <<>>)

\* { ...(docs[key] || {}), ...(api[key] || {}), ...(logic[key] ? { logic: logic[key] } : {}) }
mergedRecord(api, docs, logic, key) ==
    SpreadInto(SpreadInto(SpreadInto(<<>>,
        SpreadEntries(Or(Prop(docs, key), Obj(<<>>)))),
        SpreadEntries(Or(Prop(api, key), Obj(<<>>)))),
        IF Truthy(Prop(logic, key)) THEN << Entry(s_logic, Prop(logic, key)) >> ELSE <<>>)

\* mergeDatasets, on the four files
mergeDatasets(src) ==
    LET api    == readJsonSafe(src.api)
        docs   == readJsonSafe(src.docs)
        logic  == readJsonSafe(src.logic)
        tokens == readJsonSafe(src.tokens)
        keys   == allKeys(api, docs, logic)
        merged == [i \in 1..Len(keys) |->
                      Entry(keys[i], Obj(mergedRecord(api, docs, logic, keys[i])))]
    IN IF Len(ObjectKeys(tokens)) > 0
       THEN SetProp(merged, s_tokens, Obj(tokens))
       ELSE merged

\* JSON.parse(JSON.stringify(val)): properties holding a function or undefined
\* are left out
RECURSIVE JsonValue(_)
JsonValue(val) ==
    IF val.t = "object"
    THEN LET kept == SelectSeq(val.v, LAMBDA e : e.v.t \notin {"undefined", "function"})
         IN Obj([i \in 1..Len(kept) |-> Entry(kept[i].k, JsonValue(kept[i].v))])
    ELSE val

\* main of the Merger: merge the four sources and write data/combined.json
MergerMain ==
    /\ server = "merger"
    /\ merger = "start"
    /\ file' = Document(JsonValue(Obj(mergeDatasets(sources))).v)
    /\ merger' = "done"
    /\ UNCHANGED <<server, sources, fetcher>>
    /\ UNCHANGED extractorVars
    /\ UNCHANGED serverVars

---------------------------------------------------------------------------
(* Documentation Fetcher *)

s_lt == <<"<">>

\* What a request to https://www.primevue.org/<component>/ comes to: a page
\* (res.ok, and its text arrives), a response that is not ok, or a rejected
\* fetch.  A page is its first h1, its first p, and the texts of its code blocks.
Page(h1, para, codes) == [kind |-> "page", h1 |-> h1, p |-> para, codes |-> codes]
NotOk        == [kind |-> "notOk", h1 |-> s_empty, p |-> s_empty, codes |-> <<>>]
NetworkError == [kind |-> "error", h1 |-> s_empty, p |-> s_empty, codes |-> <<>>]

\* fetchDocs once the request has completed: the record, or null
fetchDocs(outcome) ==
    IF outcome.kind = "page"
    THEN Obj(<< Entry(s_title, Str(outcome.h1)),
                Entry(s_description, Str(outcome.p)),
                Entry(s_examples,
                      Arr(Map(SelectSeq(outcome.codes, LAMBDA code : includes(code, s_lt)),
                              LAMBDA code : Str(code)))) >>)
    ELSE Null

\* A loop body that stores whatever fetchDocs returned
docsWithAny(docs, component, data) == SetProp(docs, component, data)

\* if (data) docs[component] = data
docsWith(docs, component, data) ==
    IF Truthy(data) THEN SetProp(docs, component, data) ELSE docs

\* A loop that never advances
sameComponent(i) == i

\* The for...of loop advancing to the next key
nextComponent(i) == i + 1

FetcherIdle ==
    [pc |-> "start", names |-> <<>>, i |-> 0, docs |-> <<>>,
     requests |-> <<>>, outcomes |-> <<>>, outstanding |-> 0]

\* The loop at index i of `names`: fetch(url) for the component there, or past
\* the last one write data/docs.json
FetcherLoop(f, i) ==
    IF i <= Len(f.names)
    THEN /\ fetcher' = [f EXCEPT !.pc = "awaitFetch", !.i = i,
                                 !.requests = Append(f.requests, f.names[i]),
                                 !.outstanding = f.outstanding + 1]
         /\ UNCHANGED sources
    ELSE /\ fetcher' = [f EXCEPT !.pc = "done", !.i = i]
         /\ sources' = [sources EXCEPT !.docs = JsonFile(JsonValue(Obj(f.docs)).v)]

\* main up to its first await: JSON.parse(fs.readFileSync(API_PATH)) outside
\* any try, then the first turn of the loop
FetcherStart ==
    /\ server = "fetcher"
    /\ fetcher.pc = "start"
    /\ IF sources.api.kind = "json"
       THEN FetcherLoop([fetcher EXCEPT !.names = ObjectKeys(sources.api.json)], 1)
       ELSE /\ fetcher' = [fetcher EXCEPT !.pc = "crashed"]
            /\ UNCHANGED sources
    /\ UNCHANGED <<server, file, merger>>
    /\ UNCHANGED extractorVars
    /\ UNCHANGED serverVars

\* The outstanding request completes: fetchDocs returns, main stores the data
\* and starts the 300 ms timer
FetcherResponse(outcome) ==
    /\ server = "fetcher"
    /\ fetcher.pc = "awaitFetch"
    /\ fetcher' = [fetcher EXCEPT
                      !.pc = "pause",
                      !.docs = docsWith(@, fetcher.names[fetcher.i], fetchDocs(outcome)),
                      !.outcomes = Append(@, outcome.kind),
                      !.outstanding = @ - 1]
    /\ UNCHANGED <<server, file, sources, merger>>
    /\ UNCHANGED extractorVars
    /\ UNCHANGED serverVars

\* The timer fires: the next turn of the loop
FetcherPauseElapsed ==
    /\ server = "fetcher"
    /\ fetcher.pc = "pause"
    /\ FetcherLoop(fetcher, nextComponent(fetcher.i))
    /\ UNCHANGED <<server, file, merger>>
    /\ UNCHANGED extractorVars
    /\ UNCHANGED serverVars

---------------------------------------------------------------------------
(* Regular expressions on source text *)

Digits == {"0","1","2","3","4","5","6","7","8","9"}

\* \w, \s (of which the texts here hold the blank only), the class of the
\* quote characters (of which the texts here hold no backquote), [^)], [^}]
isWordChar(c)      == c \in Range(UpperCase) \cup Range(LowerCase) \cup Digits \cup {"_"}
isSpace(c)         == c = " "
isQuote(c)         == c \in {"'", "\""}
notCloseParen(c)   == c # ")"
notCloseBrace(c)   == c # "}"
notQuote(c)        == ~isQuote(c)

\* The last index of the longest run of characters of a class that starts at
\* i (i - 1 when there is none): a greedy X* or X+
RunEnd(text, i, Class(_)) ==
    LET stops == {j \in i..Len(text) : ~Class(text[j])}
    IN IF i > Len(text) THEN i - 1
       ELSE IF stops = {} THEN Len(text)
       ELSE (CHOOSE j \in stops : \A k \in stops : j <= k) - 1

At(text, i, c) == i >= 1 /\ i <= Len(text) /\ text[i] = c
ClassAt(text, i, Class(_)) == i >= 1 /\ i <= Len(text) /\ Class(text[i])
LiteralAt(text, i, lit) ==
    i + Len(lit) - 1 <= Len(text) /\ SubSeq(text, i, i + Len(lit) - 1) = lit

\* \b between the characters i - 1 and i
WordBoundary(text, i) == ClassAt(text, i - 1, isWordChar) # ClassAt(text, i, isWordChar)

\* The matches of a global regular expression, left to right without overlap;
\* ends[i] is the last index of the match that starts at i, 0 when none does
RECURSIVE Scan(_, _, _)
Scan(text, ends, pos) ==
    IF pos > Len(text) THEN <<>>
    ELSE IF ends[pos] >= pos
         THEN << SubSeq(text, pos, ends[pos]) >> \o Scan(text, ends, ends[pos] + 1)
         ELSE Scan(text, ends, pos + 1)

\* content.match(/.../g): the matches (none for null)
MatchAll(text, End(_, _)) == Scan(text, [i \in 1..Len(text) |-> End(text, i)], 1)

\* s.trim(), of blanks
Trim(str) ==
    LET inked == {j \in 1..Len(str) : ~isSpace(str[j])}
    IN IF inked = {} THEN <<>>
       ELSE SubSeq(str, CHOOSE j \in inked : \A k \in inked : j <= k,
                        CHOOSE j \in inked : \A k \in inked : j >= k)

---------------------------------------------------------------------------
(* Logic Signal Extractor *)

s_use          == <<"u","s","e">>
s_emitParen    == <<"e","m","i","t","(">>
s_setup        == <<"s","e","t","u","p">>
s_render       == <<"r","e","n","d","e","r">>
s_composables  == <<"c","o","m","p","o","s","a","b","l","e","s">>
s_vueImports   == <<"v","u","e","I","m","p","o","r","t","s">>
s_emits        == <<"e","m","i","t","s">>
VueApis ==
    << <<"r","e","f">>, <<"r","e","a","c","t","i","v","e">>,
       <<"c","o","m","p","u","t","e","d">>,
       <<"w","a","t","c","h">>,
       <<"o","n","M","o","u","n","t","e","d">>,
       <<"o","n","U","n","m","o","u","n","t","e","d">> >>

\* /use[A-Z]\w+/
useEnd(text, i) ==
    IF /\ LiteralAt(text, i, s_use)
       /\ ClassAt(text, i + 3, LAMBDA c : c \in Range(UpperCase))
       /\ ClassAt(text, i + 4, isWordChar)
    THEN RunEnd(text, i + 4, isWordChar)
    ELSE 0

\* /\b(ref|reactive|computed|watch|onMounted|onUnmounted)\b/
vueImportEnd(text, i) ==
    LET found == {k \in 1..Len(VueApis) :
                     /\ LiteralAt(text, i, VueApis[k])
                     /\ WordBoundary(text, i + Len(VueApis[k]))}
    IN IF WordBoundary(text, i) /\ found # {}
       THEN i + Len(VueApis[CHOOSE k \in found : \A j \in found : k <= j]) - 1
       ELSE 0

\* /\b(\w+)\s*\([^)]*\)\s*{[^}]*}/
methodEnd(text, i) ==
    LET open   == RunEnd(text, RunEnd(text, i, isWordChar) + 1, isSpace) + 1
        close  == RunEnd(text, open + 1, notCloseParen) + 1
        brace  == RunEnd(text, close + 1, isSpace) + 1
        closed == RunEnd(text, brace + 1, notCloseBrace) + 1
    IN IF /\ WordBoundary(text, i) /\ ClassAt(text, i, isWordChar)
          /\ At(text, open, "(") /\ At(text, close, ")")
          /\ At(text, brace, "{") /\ At(text, closed, "}")
       THEN closed
       ELSE 0

\* /emit\(Q(.+?)Q\)/ where Q is the class of the quote characters
emitEnd(text, i) ==
    LET closes == {j \in (i + 7)..(Len(text) - 1) : isQuote(text[j]) /\ text[j + 1] = ")"}
    IN IF LiteralAt(text, i, s_emitParen) /\ ClassAt(text, i + 5, isQuote) /\ closes # {}
       THEN (CHOOSE j \in closes : \A k \in closes : j <= k) + 1
       ELSE 0

\* m.split at the first parenthesis, [0].trim()
methodName(m) ==
    LET parens == {j \in 1..Len(m) : m[j] = "("}
    IN Trim(SubSeq(m, 1, (CHOOSE j \in parens : \A k \in parens : j <= k) - 1))

\* e.match(/Q(.+?)Q/)?.[1]
emitName(e) ==
    LET quotes == {j \in 1..Len(e) : isQuote(e[j])}
        first  == CHOOSE j \in quotes : \A k \in quotes : j <= k
        later  == {j \in quotes : j >= first + 2}
    IN SubSeq(e, first + 1, (CHOOSE j \in later : \A k \in later : j <= k) - 1)

Strings(seq) == Arr([i \in 1..Len(seq) |-> Str(seq[i])])

\* emitMatches.map(e => e.match(...)?.[1])
emitsOf(content) ==
    [i \in 1..Len(MatchAll(content, emitEnd)) |-> emitName(MatchAll(content, emitEnd)[i])]

\* methodMatches.map(...).filter(m => not setup, not render), as a Set
methodsOf(content) ==
    NewSet(SelectSeq([i \in 1..Len(MatchAll(content, methodEnd)) |->
                         methodName(MatchAll(content, methodEnd)[i])],
                     LAMBDA m : m \notin {s_setup, s_render}))

\* extractLogicFromFile: a category is set when its expression matches at all
extractLogicFromFile(content) ==
    (IF Len(MatchAll(content, useEnd)) > 0
     THEN << Entry(s_composables, Strings(NewSet(MatchAll(content, useEnd)))) >> ELSE <<>>)
    \o (IF Len(MatchAll(content, vueImportEnd)) > 0
        THEN << Entry(s_vueImports, Strings(NewSet(MatchAll(content, vueImportEnd)))) >>
        ELSE <<>>)
    \o (IF Len(MatchAll(content, methodEnd)) > 0
        THEN << Entry(s_methods, Strings(methodsOf(content))) >> ELSE <<>>)
    \o (IF Len(MatchAll(content, emitEnd)) > 0
        THEN << Entry(s_emits, Strings(emitsOf(content))) >> ELSE <<>>)

\* A file of a component directory, and readFileSafe: the text, or null
NoFile == [readable |-> FALSE, text |-> <<>>]
TextFile(text) == [readable |-> TRUE, text |-> text]
readFileSafe(f) == IF f.readable THEN Str(f.text) ELSE Null

\* An entry of node_modules/primevue with <dir>.vue and index.mjs
DirEntry(name, isDirectory, vue, mjs) ==
    [name |-> name, isDirectory |-> isDirectory, vue |-> vue, mjs |-> mjs]

\* One turn of the loop of extractLogic on an entry
extractLogicEntry(result, dir) ==
    LET logicFile == Or(readFileSafe(dir.vue), readFileSafe(dir.mjs))
        extracted == extractLogicFromFile(logicFile.v)
    IN IF ~dir.isDirectory \/ ~Truthy(logicFile) THEN result
       ELSE IF Len(ObjectKeys(extracted)) > 0
            THEN SetProp(result, dir.name, Obj(extracted))
            ELSE result

ExtractorIdle == [pc |-> "loop", dirs |-> <<>>, i |-> 1, result |-> <<>>]

\* extractLogic: the next entry of readdirSync(PRIMEVUE_DIR)
ExtractLogicDir ==
    /\ server = "logic"
    /\ extractor.pc = "loop"
    /\ extractor.i <= Len(extractor.dirs)
    /\ extractor' = [extractor EXCEPT
                        !.result = extractLogicEntry(@, extractor.dirs[extractor.i]),
                        !.i = @ + 1]
    /\ UNCHANGED <<server, file, sources, merger, fetcher, tokenizer>>
    /\ UNCHANGED serverVars

\* main of the Logic Signal Extractor after the loop: write data/logic.json
ExtractLogicWrite ==
    /\ server = "logic"
    /\ extractor.pc = "loop"
    /\ extractor.i > Len(extractor.dirs)
    /\ extractor' = [extractor EXCEPT !.pc = "done"]
    /\ sources' = [sources EXCEPT !.logic = JsonFile(JsonValue(Obj(extractor.result)).v)]
    /\ UNCHANGED <<server, file, merger, fetcher, tokenizer>>
    /\ UNCHANGED serverVars

TokenizerIdle == [pc |-> "loop", files |-> <<>>, i |-> 1, tokens |-> <<>>]

---------------------------------------------------------------------------
(* Token Extractor *)

s_dtParen    == <<"d","t","(">>
s_dashP      == <<"-","-","p","-">>
s_dtOpen     == <<"d","t","(","'">>
s_dtClose    == <<"'",")">>

\* /dt\(Q([^Q]+)Q\)/ where Q is the class of the quote characters
dtEnd(text, i) ==
    LET close == RunEnd(text, i + 4, notQuote) + 1
    IN IF /\ LiteralAt(text, i, s_dtParen) /\ ClassAt(text, i + 3, isQuote)
          /\ ClassAt(text, i + 4, notQuote)
          /\ ClassAt(text, close, isQuote) /\ At(text, close + 1, ")")
       THEN close + 1
       ELSE 0

\* tokenMatch[1]: the path between the quotes of a matched call
tokenPath(match) == SubSeq(match, 5, Len(match) - 2)

\* The key with the path as written
tokenKeyDotted(path) == s_dashP \o path

\* `--p-${tokenPath.replace(/\./g, '-')}`
tokenKey(path) == s_dashP \o [j \in 1..Len(path) |-> IF path[j] = "." THEN "-" ELSE path[j]]

\* `dt('${tokenPath}')`
tokenValue(path) == s_dtOpen \o path \o s_dtClose

\* The loop of extractTokensFromFile over the matches from the k-th on
RECURSIVE assignTokens(_, _, _)
assignTokens(tokens, matches, k) ==
    IF k > Len(matches) THEN tokens
    ELSE assignTokens(SetProp(tokens, tokenKey(tokenPath(matches[k])),
                              Str(tokenValue(tokenPath(matches[k])))),
                      matches, k + 1)

extractTokensFromFile(content) == assignTokens(<<>>, MatchAll(content, dtEnd), 1)

\* One turn of the loop of main on a file: unreadable and empty files are
\* skipped, Object.assign copies the extracted entries over the map
tokensAfterFile(tokens, f) ==
    IF ~Truthy(readFileSafe(f)) THEN tokens
    ELSE SpreadInto(tokens, extractTokensFromFile(readFileSafe(f).v))

\* main: the next of the files findTokenFiles found under the two directories
TokenFile ==
    /\ server = "tokens"
    /\ tokenizer.pc = "loop"
    /\ tokenizer.i <= Len(tokenizer.files)
    /\ tokenizer' = [tokenizer EXCEPT
                        !.tokens = tokensAfterFile(@, tokenizer.files[tokenizer.i]),
                        !.i = @ + 1]
    /\ UNCHANGED <<server, file, sources, merger, fetcher, extractor>>
    /\ UNCHANGED serverVars

\* main after the loops: write data/tokens.json
TokenWrite ==
    /\ server = "tokens"
    /\ tokenizer.pc = "loop"
    /\ tokenizer.i > Len(tokenizer.files)
    /\ tokenizer' = [tokenizer EXCEPT !.pc = "done"]
    /\ sources' = [sources EXCEPT !.tokens = JsonFile(JsonValue(Obj(tokenizer.tokens)).v)]
    /\ UNCHANGED <<server, file, merger, fetcher, extractor>>
    /\ UNCHANGED serverVars

\* No pipeline stage runs beside the servers
PipelineIdle ==
    /\ sources = [api |-> MissingFile, docs |-> MissingFile,
                  logic |-> MissingFile, tokens |-> MissingFile]
    /\ merger = "start"
    /\ fetcher = FetcherIdle
    /\ extractor = ExtractorIdle
    /\ tokenizer = TokenizerIdle

---------------------------------------------------------------------------
(* Environment *)

\* The clock advances
ClockTick ==
    /\ now < StartTime + MaxTicks * Tick
    /\ now' = now + Tick
    /\ UNCHANGED <<server, file, dataset, cache, mcpDataset, apiLoaded, mcpLoaded, origin, resp>>
    /\ UNCHANGED pipelineVars

\* The pipeline rewrites data/combined.json, or the file is removed
WriteFile(content) ==
    /\ content # file
    /\ file' = content
    /\ UNCHANGED <<server, dataset, cache, now, mcpDataset, apiLoaded, mcpLoaded, origin, resp>>
    /\ UNCHANGED pipelineVars

---------------------------------------------------------------------------
(* The servers with their memoized handlers, the cache and the clock *)

\* What data/combined.json holds over time
FileContents == {Unreadable, Document(<<>>), Document(DatasetA), Document(DatasetB)}

\* `q` of GET /mcp/components and of GET /mcp/tokens: absent or a word
ListQueries == {Undefined, Str(s_all)}
TokenQueries == {Undefined, Str(s_all)}

\* `q` of GET /mcp/search: SearchQuerySchema rejects an absent and an empty q
SearchQueries == {Undefined, Str(s_empty), Str(s_t)}

\* :name and ?section of GET /mcp/component/:name
ComponentRequests == {<<s_Tab, Undefined>>, <<s_zz, Undefined>>, <<s_tab, Str(s_zz)>>}

\* Tool calls and resource reads
ToolCalls == {<<"search_components", Undefined>>, <<"search_components", Str(s_t)>>,
              <<"search_tokens", Str(s_t)>>, <<"list_components", Undefined>>,
              <<"get_component", Str(s_tab)>>}
ResourceUris == {s_tokensUri, s_componentUri \o s_Tab}

InitWith(files) ==
    /\ server \in {"api", "mcp"}
    /\ file \in files
    /\ dataset = <<>>
    /\ cache = EmptyCache
    /\ now = StartTime
    /\ mcpDataset = <<>>
    /\ apiLoaded = FALSE
    /\ mcpLoaded = FALSE
    /\ origin = EmptyMap
    /\ resp = NoResponse
    /\ PipelineIdle

Init == InitWith(FileContents)

QueryApi ==
    /\ server = "api"
    /\ UNCHANGED pipelineVars
    /\ \/ \E q \in ListQueries : ListComponents(q)
       \/ \E q \in TokenQueries : GetTokens(q)
       \/ \E q \in SearchQueries : Search(q)
       \/ \E r \in ComponentRequests : GetComponent(r[1], r[2])
       \/ CacheStats
       \/ CacheClear

ToolServer ==
    /\ server = "mcp"
    /\ UNCHANGED pipelineVars
    /\ \/ ListResources
       \/ \E uri \in ResourceUris : ReadResource(uri)
       \/ \E call \in ToolCalls : CallTool(call[1], call[2])

Next ==
    \/ QueryApi
    \/ ToolServer
    \/ ClockTick
    \/ \E content \in FileContents : WriteFile(content)

Spec == Init /\ [][Next]_vars

---------------------------------------------------------------------------
(* The lookups by name of both servers, over every document built from a   *)
(* fixed list of entries                                                   *)

\* The entries a document may hold, in the order the Merger writes them
LookupEntries == << DatasetB[1], DatasetA[1], DatasetA[2], DatasetA[4] >>

\* The document holding the entries with the indices in `chosen`
Subdocument(chosen) ==
    Map(SelectSeq([i \in 1..Len(LookupEntries) |-> i], LAMBDA i : i \in chosen),
        LAMBDA i : LookupEntries[i])

LookupFiles ==
    {Unreadable} \cup {Document(Subdocument(chosen)) : chosen \in SUBSET (1..Len(LookupEntries))}

LookupNames ==
    {s_tab, s_Tab, s_TAB, s_chip, s_CHIP, s_zz, s_constructor, s_tokens, s_TOKENS}
LookupSections == {s_title, s_description, s_props, s_Props, s_logic, s_zz}
LookupRequests ==
    {<<n, Undefined>> : n \in LookupNames}
    \cup {<<n, Str(sec)>> : n \in {s_tab, s_Tab}, sec \in LookupSections}
LookupUris == {s_tokensUri, s_zz} \cup {s_componentUri \o n : n \in LookupNames}

InitLookup == InitWith(LookupFiles)

QueryApiLookup ==
    /\ server = "api"
    /\ UNCHANGED pipelineVars
    /\ \E r \in LookupRequests : GetComponent(r[1], r[2])

ToolServerLookup ==
    /\ server = "mcp"
    /\ UNCHANGED pipelineVars
    /\ \/ \E uri \in LookupUris : ReadResource(uri)
       \/ \E n \in LookupNames : CallTool("get_component", Str(n))
       \/ CallTool("get_component", Undefined)
       \/ CallTool("no_such_tool", Undefined)

NextLookup ==
    \/ QueryApiLookup
    \/ ToolServerLookup
    \/ \E content \in LookupFiles : WriteFile(content)

SpecLookup == InitLookup /\ [][NextLookup]_vars

---------------------------------------------------------------------------
(* The pipeline stages that read JSON inputs: the Merger and the           *)
(* Documentation Fetcher, each run on its own                              *)

\* data/api.json: records with props, with fields the docs also have, with a
\* `logic` field, and under the reserved key
ApiA ==
    << Entry(s_tab, Obj(<< Entry(s_props, Obj(<< Entry(s_label, Str(s_type)) >>)),
                           Entry(s_description, Str(s_chip)) >>)),
       Entry(s_chip, Obj(<< Entry(s_props, Obj(<<>>)) >>)) >>
ApiB ==
    << Entry(s_Tab, Obj(<< Entry(s_logic, Obj(<<>>)), Entry(s_title, Str(s_Tab)) >>)),
       Entry(s_tokens, Obj(<< Entry(s_title, Str(s_t)) >>)) >>

\* data/docs.json
DocsA ==
    << Entry(s_tab, Obj(<< Entry(s_title, Str(s_Tab)),
                           Entry(s_description, Str(s_all)),
                           Entry(s_examples, Arr(<< Str(s_code) >>)) >>)),
       Entry(s_zz, Obj(<< Entry(s_title, Str(s_empty)),
                          Entry(s_logic, Obj(<< Entry(s_methods, Arr(<<>>)) >>)) >>)) >>

\* data/logic.json, one entry being falsy
LogicA ==
    << Entry(s_tab, Obj(<< Entry(s_methods, Arr(<< Str(s_t) >>)) >>)),
       Entry(s_Tab, Obj(<< Entry(s_methods, Arr(<< Str(s_zz) >>)) >>)),
       Entry(s_chip, Str(s_empty)),
       Entry(s_CHIP, Obj(<< Entry(s_methods, Arr(<< Str(s_t) >>)) >>)) >>

\* data/tokens.json
TokensA == << Entry(s_tokenKey, Str(s_tokenValue)) >>
TokensB == << Entry(s_tab, Str(s_tokenValue)), Entry(s_tokenKey, Str(s_type)) >>

ApiFiles    == {MissingFile, MalformedFile, JsonFile(<<>>), JsonFile(ApiA), JsonFile(ApiB)}
DocsFiles   == {MissingFile, MalformedFile, JsonFile(<<>>), JsonFile(DocsA)}
LogicFiles  == {MissingFile, MalformedFile, JsonFile(LogicA)}
TokensFiles == {MissingFile, MalformedFile, JsonFile(<<>>), JsonFile(TokensA), JsonFile(TokensB)}

\* The servers are not running
ServersIdle ==
    /\ dataset = <<>>
    /\ cache = EmptyCache
    /\ now = StartTime
    /\ mcpDataset = <<>>
    /\ apiLoaded = FALSE
    /\ mcpLoaded = FALSE
    /\ origin = EmptyMap
    /\ resp = NoResponse

\* What the requests of the Documentation Fetcher come to
FetchOutcomes ==
    {Page(s_Tab, s_all, << s_code, s_zz >>), Page(s_empty, s_empty, <<>>), NotOk, NetworkError}

InitPipeline ==
    /\ server \in {"merger", "fetcher"}
    /\ file = Unreadable
    /\ sources \in [api : ApiFiles, docs : DocsFiles, logic : LogicFiles, tokens : TokensFiles]
    /\ merger = "start"
    /\ fetcher = FetcherIdle
    /\ extractor = ExtractorIdle
    /\ tokenizer = TokenizerIdle
    /\ ServersIdle

FetcherNext ==
    \/ FetcherStart
    \/ \E outcome \in FetchOutcomes : FetcherResponse(outcome)
    \/ FetcherPauseElapsed

NextPipeline ==
    \/ MergerMain
    \/ FetcherNext

SpecPipeline == InitPipeline /\ [][NextPipeline]_vars

\* The process runs, every request completes and every timer fires
SpecPipelineFair == SpecPipeline /\ WF_vars(FetcherNext)

---------------------------------------------------------------------------
(* The extractors that read source text *)

\* Texts of component files
vue_composables == <<"u","s","e","A","b"," ","u","s","e","A","b">>
vue_imports     == <<"w","a","t","c","h"," ","r","e","f"," ","w","a","t","c","h"," ","r","e","f","s">>
vue_setupOnly   == <<"s","e","t","u","p","(",")"," ","{","}">>
vue_methods     == <<"g","o","(",")","{","}"," ","r","e","n","d","e","r","(",")","{","}"," ","g","o"," ","(","x",")"," ","{","y","}">>
vue_emits       == <<"e","m","i","t","(","'","a","'",")"," ","e","m","i","t","(","'","b","'",")"," ","e","m","i","t","(","\"","a","\"",")">>
vue_plain       == <<"x"," ","="," ","1">>
vue_mixed       == <<"e","m","i","t","(","\"","b","\"",")",";","u","s","e","C","d","(",")","{","r","e","f","}">>

LogicTexts ==
    {vue_composables, vue_imports, vue_setupOnly, vue_methods, vue_emits, vue_plain,
     vue_mixed, s_empty}

\* Entries of node_modules/primevue for one name: a directory with a .vue
\* file, a directory with index.mjs only or with both, an empty directory, a file
LogicEntries(name) ==
    {DirEntry(name, TRUE, TextFile(text), NoFile) : text \in LogicTexts}
    \cup {DirEntry(name, TRUE, NoFile, TextFile(vue_mixed)),
          DirEntry(name, TRUE, TextFile(s_empty), TextFile(vue_methods)),
          DirEntry(name, TRUE, NoFile, NoFile),
          DirEntry(name, FALSE, NoFile, NoFile)}

\* What readdirSync(PRIMEVUE_DIR) lists
LogicDirs ==
    {<<>>} \cup {<< a >> : a \in LogicEntries(s_tab)}
    \cup {<< a, b >> : a \in LogicEntries(s_chip), b \in LogicEntries(s_tab)}

\* Texts of style files
js_two        == <<"d","t","(","'","a",".","b","'",")"," ","d","t","(","\"","c","\"",")">>
js_hyphen     == <<"x",":","d","t","(","'","a","-","b","'",")">>
js_twice      == <<"d","t","(","'","c",".","d","'",")","d","t","(","'","a",".","b","'",")","d","t","(","'","c",".","d","'",")">>
js_none       == <<"d","t","(","a",".","b",")"," ","d","t","(","'","'",")">>

\* The files findTokenFiles lists, in the order main visits them
StyleFileSet ==
    {TextFile(js_two), TextFile(js_hyphen), TextFile(js_twice), TextFile(js_none),
     TextFile(s_empty), NoFile}
StyleFiles ==
    {<<>>} \cup {<< a >> : a \in StyleFileSet}
    \cup {<< a, b >> : a \in StyleFileSet, b \in StyleFileSet}
    \cup {<< a, b, c >> : a \in StyleFileSet \ {TextFile(s_empty)},
                          b \in StyleFileSet \ {TextFile(js_none)},
                          c \in {TextFile(js_two), TextFile(js_hyphen), NoFile}}

InitExtractors ==
    /\ server \in {"logic", "tokens"}
    /\ file = Unreadable
    /\ sources = [api |-> MissingFile, docs |-> MissingFile,
                  logic |-> MissingFile, tokens |-> MissingFile]
    /\ merger = "start"
    /\ fetcher = FetcherIdle
    /\ extractor \in {[ExtractorIdle EXCEPT !.dirs = dirs] :
                          dirs \in IF server = "logic" THEN LogicDirs ELSE {<<>>}}
    /\ tokenizer \in {[TokenizerIdle EXCEPT !.files = files] :
                          files \in IF server = "tokens" THEN StyleFiles ELSE {<<>>}}
    /\ ServersIdle

NextExtractors ==
    \/ ExtractLogicDir
    \/ ExtractLogicWrite
    \/ TokenFile
    \/ TokenWrite

SpecExtractors == InitExtractors /\ [][NextExtractors]_vars

---------------------------------------------------------------------------
(* Properties *)

ApiAnswered(op) == resp.server = "api" /\ resp.op = op /\ resp.status = "200"
McpAnswered(op) == resp.server = "mcp" /\ resp.op = op /\ resp.status = "result"
ComponentAnswered == resp.server = "api" /\ resp.op = "component" /\ resp.status # "500"

\* C1: the reserved key `_tokens` is never listed as a component: not by
\* GET /mcp/components, not as a `component` result of GET /mcp/search, not by
\* the tools search_components and list_components, and not as a component
\* resource of the resource listing.
C1_ReservedKeyNeverListed ==
    /\ ApiAnswered("components") =>
          \A i \in 1..Len(resp.body) : resp.body[i].name # s_tokens
    /\ ApiAnswered("search") =>
          \A i \in 1..Len(resp.body.results) :
              resp.body.results[i].type = s_component => resp.body.results[i].name # s_tokens
    /\ McpAnswered("search_components") =>
          \A i \in 1..Len(resp.body.results) : resp.body.results[i].name # s_tokens
    /\ McpAnswered("list_components") =>
          \A i \in 1..Len(resp.body.components) : resp.body.components[i].name # s_tokens
    /\ McpAnswered("resources/list") =>
          \A i \in 1..Len(resp.body) : resp.body[i].uri # s_componentUri \o s_tokens

\* A document with the token map was listed in full: every key but `_tokens`.
C1_Witness ==
    /\ ApiAnswered("components")
    /\ HasOwn(dataset, s_tokens)
    /\ Len(resp.body) = Len(dataset) - 1
    /\ Len(resp.body) > 0

\* C2 (as claimed): a requested name that is a key of the dataset is answered
\* with the record stored under that very key.
C2_ExactKeyFirst ==
    (ComponentAnswered /\ ~Truthy(resp.section) /\ HasOwn(dataset, resp.name)) =>
        (resp.status = "200" /\ resp.body = Prop(dataset, resp.name))

\* `key` is a component key in lower case and no other key differs from it
\* only by letter case
OnlyLowerCaseKey(data, key) ==
    /\ key = toLowerCase(key)
    /\ key # s_tokens
    /\ HasOwn(data, key)
    /\ \A i \in 1..Len(data) : toLowerCase(data[i].k) = key => data[i].k = key

\* C3: when the dataset has a component under a lower-case key and no other
\* key differing from it only by letter case, every letter-case variant of
\* the name is answered like the lower-case name: with the record stored under
\* that key, or with what the lower-case name gets for the same section.
C3_CaseVariantsSameRecord ==
    (ComponentAnswered /\ OnlyLowerCaseKey(dataset, toLowerCase(resp.name))) =>
        IF Truthy(resp.section)
        THEN [status |-> resp.status, body |-> resp.body]
                 = sectionResponse(Prop(dataset, toLowerCase(resp.name)), resp.section)
        ELSE resp.status = "200" /\ resp.body = Prop(dataset, toLowerCase(resp.name))

\* `TAB` was requested of a dataset whose only key of that spelling is `tab`.
C3_Witness ==
    /\ ComponentAnswered
    /\ resp.name = s_TAB
    /\ resp.status = "200"
    /\ OnlyLowerCaseKey(dataset, s_tab)

\* C4 (as claimed): GET /mcp/components and GET /mcp/tokens answer a request
\* with filter q with what the filter q computes on the loaded dataset.
C4_MemoIsFreshResult ==
    /\ ApiAnswered("components") => resp.body = computeComponents(dataset, resp.q)
    /\ ApiAnswered("tokens") => resp.body = computeTokens(dataset, resp.q)

\* A result for the filter value q is memoized under `key` and is younger
\* than five minutes
StoredFor(key, q) ==
    /\ key \in DOMAIN origin
    /\ origin[key] = q
    /\ key \in DOMAIN cache.timestamps
    /\ now - cache.timestamps[key] < ttl

\* A step that answers a memoized request 200 serves the memoized result
\* exactly when one was stored for q; otherwise it recomputes, stores the
\* result and stamps it with the current time
AnswersAsMemoized(which, key, q, fresh) ==
    resp'.status = "200" =>
        /\ resp'.hit <=> StoredFor(key, q)
        /\ ~StoredFor(key, q) =>
              /\ resp'.body = fresh
              /\ key \in DOMAIN cache'[which] /\ cache'[which][key] = fresh
              /\ key \in DOMAIN cache'.timestamps /\ cache'.timestamps[key] = now

MemoizedSteps ==
    /\ \A q \in ListQueries :
          ListComponents(q) =>
              AnswersAsMemoized("components", componentsCacheKey(q), q,
                                computeComponents(dataset', q))
    /\ \A q \in TokenQueries :
          GetTokens(q) =>
              AnswersAsMemoized("tokens", tokensCacheKey(q), q, computeTokens(dataset', q))
    /\ \A q \in SearchQueries :
          (SearchQueryValid(q) /\ Search(q)) =>
              AnswersAsMemoized("search", searchCacheKey(q), q, computeSearch(dataset', q))

\* C5 (as claimed): list components, get tokens and global search answer a
\* request with filter q from the memoized result exactly when a result for q
\* was stored less than 5 minutes earlier and the cache was not cleared since;
\* otherwise the result is recomputed, stored and stamped with the current time.
C5_MemoizedExactlyWhenStored == [][server = "api" => MemoizedSteps]_vars

\* C6 (as claimed): after the first successful load of a server process its
\* in-memory dataset never changes again.
C6_LoadedOnce ==
    [][/\ apiLoaded => dataset' = dataset
       /\ mcpLoaded => mcpDataset' = mcpDataset]_vars

\* C7 (as claimed): a name that is no key of the dataset, neither as given nor
\* in lower case, is answered 404 with an `available` list that holds every
\* component key and not `_tokens`.
C7_UnknownNameIs404 ==
    (ComponentAnswered /\ ~HasOwn(dataset, resp.name)
                       /\ ~HasOwn(dataset, toLowerCase(resp.name))) =>
        /\ resp.status = "404"
        /\ \A i \in 1..Len(dataset) :
              dataset[i].k # s_tokens => dataset[i].k \in Range(resp.body.available)
        /\ s_tokens \notin Range(resp.body.available)

\* C8 (as claimed): with a section, a found component answers the field the
\* section names whenever the record has it, 404 only when it has not, and
\* the 404 lists exactly the sections a request for this component retrieves.
C8_SectionOrExactAlternatives ==
    LET comp == lookupComponent(dataset, resp.name)
        field == toLowerCase(resp.section.v)
    IN (ComponentAnswered /\ Truthy(resp.section) /\ comp.t = "object") =>
          /\ HasOwn(comp.v, field) =>
                (resp.status = "200" /\ resp.body = Prop(comp.v, field))
          /\ resp.status = "404" =>
                /\ ~HasOwn(comp.v, field)
                /\ Range(resp.body.available)
                     = {key \in Range(KeysOf(comp)) :
                            sectionResponse(comp, Str(key)).status = "200"}

NonEmpty(val) == val.t \in {"object", "array", "string"} /\ Len(val.v) > 0

SummaryReflectsRecord(data, summary) ==
    /\ summary.hasProps <=> NonEmpty(PropOf(Prop(data, summary.name), s_props))
    /\ summary.hasExamples <=> NonEmpty(PropOf(Prop(data, summary.name), s_examples))

\* C9 (as claimed): in the summaries of list components and of the tool
\* search_components, hasProps is true exactly when `props` is present and
\* non-empty and hasExamples exactly when `examples` is present and non-empty.
C9_FlagsReflectNonEmptiness ==
    /\ ApiAnswered("components") =>
          \A i \in 1..Len(resp.body) :
              HasOwn(dataset, resp.body[i].name) =>
                  SummaryReflectsRecord(dataset, resp.body[i])
    /\ McpAnswered("search_components") =>
          \A i \in 1..Len(resp.body.results) :
              SummaryReflectsRecord(mcpDataset, resp.body.results[i])

\* The fields of the component data[key] of which the lower-case term is a
\* substring, as `matches` names them
MatchingFields(data, key, term) ==
    LET component == Prop(data, key)
        title == PropOf(component, s_title)
        description == PropOf(component, s_description)
    IN (IF includes(toLowerCase(key), term) THEN {s_name} ELSE {})
       \cup (IF title.t = "string" /\ includes(toLowerCase(title.v), term)
             THEN {s_title} ELSE {})
       \cup (IF description.t = "string" /\ includes(toLowerCase(description.v), term)
             THEN {s_description} ELSE {})
       \cup {s_propColon \o prop : prop \in
                {p \in Range(KeysOf(PropOf(component, s_props))) :
                     includes(toLowerCase(p), term)}}

\* The token keys of which, or of whose value, the lower-case term is a substring
MatchingTokens(data, term) ==
    LET tokens == Prop(data, s_tokens) IN
    {key \in Range(KeysOf(tokens)) :
        \/ includes(toLowerCase(key), term)
        \/ PropOf(tokens, key).t = "string"
           /\ includes(toLowerCase(PropOf(tokens, key).v), term)}

\* C10 (as claimed): GET /mcp/search with a non-empty q returns a component
\* exactly when q is a case-insensitive substring of its key, title,
\* description or a prop name, with `matches` naming exactly those fields, a
\* token exactly when q is one of its key or value, and the number of results
\* as `count`.
C10_SearchReturnsExactlyMatches ==
    ApiAnswered("search") =>
        LET results == resp.body.results
            term == toLowerCase(resp.q.v)
            keys == Range(ObjectKeys(dataset)) \ {s_tokens}
        IN /\ \A key \in keys :
                 (\E i \in 1..Len(results) :
                     results[i].type = s_component /\ results[i].name = key)
                 <=> MatchingFields(dataset, key, term) # {}
           /\ \A i \in 1..Len(results) :
                 results[i].type = s_component =>
                     /\ results[i].name \in keys
                     /\ Range(results[i].matches)
                          = MatchingFields(dataset, results[i].name, term)
           /\ \A key \in MatchingTokens(dataset, term) :
                 \E i \in 1..Len(results) :
                     results[i].type = s_token /\ results[i].name = key
           /\ \A i \in 1..Len(results) :
                 results[i].type = s_token =>
                     results[i].name \in MatchingTokens(dataset, term)
           /\ resp.body.count = Len(results)

---------------------------------------------------------------------------
(* Properties of the Merger *)

\* The keys a source file defines
SourceKeys(f) == IF f.kind = "json" THEN Range(ObjectKeys(f.json)) ELSE {}

\* The source file has a record for `key` that has the field
SourceDefines(f, key, field) ==
    /\ f.kind = "json"
    /\ HasOwn(f.json, key)
    /\ Prop(f.json, key).t = "object"
    /\ HasOwn(Prop(f.json, key).v, field)

\* The value of that field, Undefined when there is none
SourceField(f, key, field) ==
    IF SourceDefines(f, key, field) THEN Prop(Prop(f.json, key).v, field) ELSE Undefined

\* The entry of the source file for `key`, Undefined when there is none
SourceEntry(f, key) ==
    IF f.kind = "json" /\ HasOwn(f.json, key) THEN Prop(f.json, key) ELSE Undefined

\* The field of the record data/combined.json holds for `key`, Undefined when
\* the record has no such field
MergedField(key, field) ==
    IF /\ HasOwn(file.json, key)
       /\ Prop(file.json, key).t = "object"
       /\ HasOwn(Prop(file.json, key).v, field)
    THEN Prop(Prop(file.json, key).v, field)
    ELSE Undefined

MergerFields == {s_title, s_description, s_examples, s_props, s_logic, s_methods, s_label}

MergerComponentKeys ==
    (SourceKeys(sources.api) \cup SourceKeys(sources.docs) \cup SourceKeys(sources.logic))
    \ {s_tokens}

\* The field is the api source's when it defines it, else the docs source's,
\* else absent
ApiOverDocs(key, field) ==
    MergedField(key, field) =
        IF SourceDefines(sources.api, key, field)
        THEN SourceField(sources.api, key, field)
        ELSE SourceField(sources.docs, key, field)

\* C11 as stated: for every component key and every top-level field, the
\* merged record takes the field from the api source when it defines the
\* field and from the docs source otherwise; the record's `logic` field is
\* the logic source's entry when it has one for the key, and the Merger adds
\* no `logic` field when it has none.
C11_ApiOverDocsEveryField ==
    merger = "done" =>
        \A key \in MergerComponentKeys :
            /\ \A field \in MergerFields : ApiOverDocs(key, field)
            /\ key \in SourceKeys(sources.logic)
                   => MergedField(key, s_logic) = SourceEntry(sources.logic, key)
            /\ key \notin SourceKeys(sources.logic) => ApiOverDocs(key, s_logic)

\* C11 (amended): every field other than `logic` is the api source's when it
\* defines the field and the docs source's otherwise; `logic` is the logic
\* source's entry when that entry is not falsy, also over a `logic` field of
\* the api or docs record, and is merged like any other field otherwise.
C11_ApiOverDocsThenLogic ==
    merger = "done" =>
        \A key \in MergerComponentKeys :
            /\ \A field \in MergerFields \ {s_logic} : ApiOverDocs(key, field)
            /\ IF Truthy(SourceEntry(sources.logic, key))
               THEN MergedField(key, s_logic) = SourceEntry(sources.logic, key)
               ELSE ApiOverDocs(key, s_logic)

\* A merge in which api and docs disagree on a field of a component that has
\* a logic entry
C11_Witness ==
    /\ merger = "done"
    /\ \E key \in MergerComponentKeys :
          /\ Truthy(SourceEntry(sources.logic, key))
          /\ \E field \in MergerFields :
                /\ SourceDefines(sources.api, key, field)
                /\ SourceDefines(sources.docs, key, field)
                /\ SourceField(sources.api, key, field) # SourceField(sources.docs, key, field)

TokenSourceNonEmpty == sources.tokens.kind = "json" /\ Len(sources.tokens.json) > 0

\* C12: the keys of the merged document are the union of the keys of the api,
\* docs and logic sources, each once, plus `_tokens` exactly when the token
\* source is non-empty; `_tokens` then holds the token source unchanged, and
\* a key of the token source alone is no key of the document.
C12_MergedKeySet ==
    merger = "done" =>
        LET keys  == ObjectKeys(file.json)
            union == SourceKeys(sources.api) \cup SourceKeys(sources.docs)
                     \cup SourceKeys(sources.logic)
        IN /\ Range(keys) = union \cup (IF TokenSourceNonEmpty THEN {s_tokens} ELSE {})
           /\ Cardinality(Range(keys)) = Len(keys)
           /\ TokenSourceNonEmpty => Prop(file.json, s_tokens) = Obj(sources.tokens.json)
           /\ \A k \in SourceKeys(sources.tokens) \ (union \cup {s_tokens}) :
                  ~HasOwn(file.json, k)

\* A merge of components from all three sources with a token source that has
\* a key no component source has, and a component key too
C12_Witness ==
    /\ merger = "done"
    /\ TokenSourceNonEmpty
    /\ SourceKeys(sources.logic) \ (SourceKeys(sources.api) \cup SourceKeys(sources.docs)) # {}
    /\ SourceKeys(sources.api) # {} /\ SourceKeys(sources.docs) # {}
    /\ SourceKeys(sources.tokens) \cap SourceKeys(sources.docs) # {}
    /\ SourceKeys(sources.tokens) \ MergerComponentKeys # {}

---------------------------------------------------------------------------
(* Properties of the cache administration *)

\* The last request answered was POST /cache/clear
AfterClear == resp.server = "api" /\ resp.op = "clear"

\* What the memoized handler `op` computes for q on the dataset
FreshResult(op, data, q) ==
    CASE op = "components" -> computeComponents(data, q)
      [] op = "tokens"     -> computeTokens(data, q)
      [] op = "search"     -> computeSearch(data, q)

\* C13: after POST /cache/clear the three memo maps and the time stamps are
\* empty; a GET /cache/stats that follows reports size 0 three times and
\* totalEntries 0, and a list, tokens or search request that follows is
\* recomputed on the dataset, whatever was memoized before the clear.
C13_ClearForgetsEverything ==
    [][/\ AfterClear' =>
             /\ DOMAIN cache'.components = {} /\ DOMAIN cache'.tokens = {}
             /\ DOMAIN cache'.search = {} /\ DOMAIN cache'.timestamps = {}
       /\ (AfterClear /\ resp'.op = "stats") =>
             /\ resp'.body.components.size = 0 /\ resp'.body.tokens.size = 0
             /\ resp'.body.search.size = 0 /\ resp'.body.totalEntries = 0
       /\ (AfterClear /\ resp'.op \in {"components", "tokens", "search"}
                      /\ resp'.status = "200") =>
             /\ ~resp'.hit
             /\ resp'.body = FreshResult(resp'.op, dataset', resp'.q)]_vars

\* The clear has been answered by a process that has served its dataset
C13_Witness ==
    /\ AfterClear
    /\ apiLoaded
    /\ Len(dataset) > 0
    /\ cache = EmptyCache

---------------------------------------------------------------------------
(* Properties of the Tool Server's failures *)

\* The request failed because data/combined.json could not be loaded
LoadFailed == resp.status = "error" /\ resp.body.error = "Failed to load dataset"

\* The name is no key of the dataset, neither as given nor in lower case
MatchesNoKey(data, name) == ~HasOwn(data, name) /\ ~HasOwn(data, toLowerCase(name))

\* A failure that enumerates the component names of the Tool Server's dataset
NotFoundWithNames ==
    /\ resp.status = "error"
    /\ "available" \in DOMAIN resp.body
    /\ Range(resp.body.available) = Range(ObjectKeys(mcpDataset)) \ {s_tokens}

\* C14 (as claimed): get_component with a name that matches no key, and a
\* read of a component URI whose name matches no key, end in a failure that
\* enumerates the component names of the dataset; a read of a URI of no known
\* form ends in a failure.
C14_ToolServerNotFound ==
    (resp.server = "mcp" /\ ~LoadFailed) =>
        /\ (/\ resp.op = "get_component"
            /\ resp.q.t = "string"
            /\ MatchesNoKey(mcpDataset, resp.q.v)) => NotFoundWithNames
        /\ (/\ resp.op = "resources/read"
            /\ startsWith(resp.q.v, s_componentUri)
            /\ MatchesNoKey(mcpDataset, uriComponentName(resp.q.v))) => NotFoundWithNames
        /\ (/\ resp.op = "resources/read"
            /\ ~startsWith(resp.q.v, s_componentUri)
            /\ resp.q.v # s_tokensUri) => resp.status = "error"

---------------------------------------------------------------------------
(* Properties of the stages that read JSON inputs *)

\* The file as the claim has it read: {} for a missing or malformed file
AsEmptyObject(f) == IF f.kind = "json" THEN f ELSE JsonFile(<<>>)

SourcesAsEmptyObjects ==
    [api   |-> AsEmptyObject(sources.api),   docs   |-> AsEmptyObject(sources.docs),
     logic |-> AsEmptyObject(sources.logic), tokens |-> AsEmptyObject(sources.tokens)]

\* C15 (as claimed): a missing or malformed input file is never fatal to the
\* Merger or to the Documentation Fetcher and counts as {}: the Merger writes
\* the merge of the sources so read, and the Documentation Fetcher, with no
\* signature file to read, writes a document without components.
C15_InputFailureNeverFatal ==
    /\ merger # "crashed"
    /\ fetcher.pc # "crashed"
    /\ merger = "done" =>
           file = Document(JsonValue(Obj(mergeDatasets(SourcesAsEmptyObjects))).v)
    /\ (fetcher.pc = "done" /\ Len(fetcher.names) = 0) => sources.docs = JsonFile(<<>>)

IsPrefix(a, b) == Len(a) <= Len(b) /\ SubSeq(b, 1, Len(a)) = a

\* C16: the Documentation Fetcher requests the component names of the
\* signature file in the order of the file, each once; at most one request is
\* outstanding; a request starts only when every earlier request has completed
\* and, after the first, when the pause has elapsed; a finished run has
\* requested every name.
C16_OneRequestAtATime ==
    [][fetcher'.pc \notin {"start", "crashed"} =>
          /\ fetcher'.names = ObjectKeys(sources.api.json)
          /\ IsPrefix(fetcher'.requests, fetcher'.names)
          /\ Cardinality(Range(fetcher'.requests)) = Len(fetcher'.requests)
          /\ fetcher'.outstanding <= 1
          /\ fetcher'.pc = "done" => fetcher'.requests = fetcher'.names
          /\ fetcher'.requests # fetcher.requests =>
                /\ Len(fetcher'.requests) = Len(fetcher.requests) + 1
                /\ fetcher.outstanding = 0
                /\ Len(fetcher.outcomes) = Len(fetcher.requests)
                /\ Len(fetcher.requests) > 0 => fetcher.pc = "pause"]_vars

\* A finished run over two components
C16_Witness ==
    /\ fetcher.pc = "done"
    /\ Len(fetcher.requests) = 2
    /\ fetcher.requests[1] # fetcher.requests[2]

\* The components whose request brought a page
Fetched == {fetcher.names[k] : k \in {j \in 1..Len(fetcher.outcomes) : fetcher.outcomes[j] = "page"}}

\* C17: a failed request leaves only its component out: a finished run has
\* requested every component, and the keys of data/docs.json are the
\* components whose request succeeded; and once the signature file is read,
\* the run reaches the write when every request completes.
C17_FailureSkipsOneComponent ==
    /\ [](fetcher.pc = "done" =>
             /\ fetcher.requests = fetcher.names
             /\ Len(fetcher.outcomes) = Len(fetcher.names)
             /\ sources.docs.kind = "json"
             /\ Range(ObjectKeys(sources.docs.json)) = Fetched)
    /\ (fetcher.pc \notin {"start", "crashed"}) ~> (fetcher.pc = "done")

\* A finished run in which a request failed before another one succeeded
C17_Witness ==
    /\ fetcher.pc = "done"
    /\ \E j, k \in 1..Len(fetcher.outcomes) :
          j < k /\ fetcher.outcomes[j] \in {"notOk", "error"} /\ fetcher.outcomes[k] = "page"

---------------------------------------------------------------------------
(* Logic Signal Extractor: properties *)

\* The text extractLogic reads for an entry (none for a file, or a directory
\* with neither file readable and non-empty)
HasLogicText(dir) ==
    dir.isDirectory /\ ((dir.vue.readable /\ dir.vue.text # <<>>)
                        \/ (dir.mjs.readable /\ dir.mjs.text # <<>>))
LogicText(dir) ==
    IF dir.vue.readable /\ dir.vue.text # <<>> THEN dir.vue.text ELSE dir.mjs.text

\* The signals of a category in a text, one per match, in the order of the text
Signals(text, cat) ==
    IF cat = s_composables THEN MatchAll(text, useEnd)
    ELSE IF cat = s_vueImports THEN MatchAll(text, vueImportEnd)
    ELSE IF cat = s_methods
         THEN SelectSeq([i \in 1..Len(MatchAll(text, methodEnd)) |->
                            methodName(MatchAll(text, methodEnd)[i])],
                        LAMBDA m : m \notin {s_setup, s_render})
    ELSE [i \in 1..Len(MatchAll(text, emitEnd)) |-> emitName(MatchAll(text, emitEnd)[i])]

Categories == {s_composables, s_vueImports, s_methods, s_emits}

\* The entries processed so far
Processed == {i \in 1..Len(extractor.dirs) : i < extractor.i}

\* The list recorded for a component under a category (empty when absent)
Recorded(name, cat) ==
    LET recs  == {j \in 1..Len(extractor.result) : extractor.result[j].k = name}
        rec   == extractor.result[CHOOSE j \in recs : TRUE].v.v
        lists == {j \in 1..Len(rec) : rec[j].k = cat}
    IN IF recs = {} \/ lists = {} THEN <<>>
       ELSE [j \in 1..Len(rec[CHOOSE l \in lists : TRUE].v.v) |->
                rec[CHOOSE l \in lists : TRUE].v.v[j].v]

InOutput(name) == \E j \in 1..Len(extractor.result) : extractor.result[j].k = name

FirstIndex(seq, x) == CHOOSE i \in 1..Len(seq) : seq[i] = x /\ \A j \in 1..(i - 1) : seq[j] # x

\* list holds the distinct values of matches, each once, in first-seen order
DistinctInOrder(list, matches) ==
    /\ \A a, b \in 1..Len(list) : a # b => list[a] # list[b]
    /\ Range(list) = Range(matches)
    /\ \A a, b \in 1..Len(list) :
          a < b => FirstIndex(matches, list[a]) < FirstIndex(matches, list[b])

\* C18: for every file text read, each of the four lists recorded for the
\* component (composables, vueImports, methods, emits) holds no value twice
\* and lists the distinct matches of its category in the order of their first
\* occurrence in the text.
C18_ListsDeduplicatedInOrder ==
    \A i \in Processed :
        HasLogicText(extractor.dirs[i]) =>
            \A cat \in Categories :
                DistinctInOrder(Recorded(extractor.dirs[i].name, cat),
                                Signals(LogicText(extractor.dirs[i]), cat))

\* C19: a component is in the output exactly when one of its categories holds
\* a recorded signal; no component of the output has every category absent
\* or empty, also when its file holds only the call-like tokens setup and render.
C19_PresentIffSomeSignal ==
    /\ \A i \in Processed :
          InOutput(extractor.dirs[i].name) <=>
              /\ HasLogicText(extractor.dirs[i])
              /\ \E cat \in Categories :
                    Len(Signals(LogicText(extractor.dirs[i]), cat)) > 0
    /\ \A j \in 1..Len(extractor.result) :
          \E cat \in Categories : Len(Recorded(extractor.result[j].k, cat)) > 0

---------------------------------------------------------------------------
(* Token Extractor: properties *)

\* The files visited so far whose text was read
Visited == {i \in 1..Len(tokenizer.files) :
               i < tokenizer.i /\ tokenizer.files[i].readable}

\* The calls found so far: the file and the position of the match in it
Calls ==
    {c \in Visited \X (1..16) :
        c[2] <= Len(MatchAll(tokenizer.files[c[1]].text, dtEnd))}
CallPath(c) == tokenPath(MatchAll(tokenizer.files[c[1]].text, dtEnd)[c[2]])

\* The file-visit order of calls, within a file the order of the text
Before(c, d) == c[1] < d[1] \/ (c[1] = d[1] /\ c[2] < d[2])

\* key is `--p-` followed by path with every dot replaced by a hyphen
IsKeyOf(key, path) ==
    /\ Len(key) = 4 + Len(path)
    /\ SubSeq(key, 1, 4) = <<"-", "-", "p", "-">>
    /\ \A j \in 1..Len(path) : key[4 + j] = (IF path[j] = "." THEN "-" ELSE path[j])

\* value is the placeholder of a call with the path
IsPlaceholderOf(value, path) ==
    value = Str(<<"d", "t", "(", "'">> \o path \o <<"'", ")">>)

\* C20: the map holds for each dt call found in the visited files the key
\* `--p-` followed by the path with dots replaced by hyphens, and no other
\* key; each key once; the value under a key is the placeholder of the last
\* call, in file-visit order, that maps to the key.
C20_TokenKeysLastCallWins ==
    /\ \A c \in Calls :
          \E j \in 1..Len(tokenizer.tokens) : IsKeyOf(tokenizer.tokens[j].k, CallPath(c))
    /\ \A j, k \in 1..Len(tokenizer.tokens) :
          j # k => tokenizer.tokens[j].k # tokenizer.tokens[k].k
    /\ \A j \in 1..Len(tokenizer.tokens) :
          \E c \in Calls :
              /\ IsKeyOf(tokenizer.tokens[j].k, CallPath(c))
              /\ IsPlaceholderOf(tokenizer.tokens[j].v, CallPath(c))
              /\ \A d \in Calls :
                    IsKeyOf(tokenizer.tokens[j].k, CallPath(d)) => ~Before(c, d)
    /\ tokenizer.pc = "done" =>
          /\ sources.tokens.kind = "json"
          /\ sources.tokens.json = tokenizer.tokens

\* Two visited files hold calls that map to one key with different paths
\* (a.b and a-b), a call occurs twice, and the map is written
C20_Witness ==
    /\ tokenizer.pc = "done"
    /\ \E c, d \in Calls :
          /\ Before(c, d)
          /\ CallPath(c) # CallPath(d)
          /\ \E j \in 1..Len(tokenizer.tokens) :
                /\ IsKeyOf(tokenizer.tokens[j].k, CallPath(c))
                /\ IsKeyOf(tokenizer.tokens[j].k, CallPath(d))
    /\ \E c, d \in Calls : c # d /\ CallPath(c) = CallPath(d)

---------------------------------------------------------------------------
(* The reserved key and the lookups by name *)

\* The name is `_tokens` in some letter case
IsReservedName(name) == toLowerCase(name) = s_tokens

\* C21: no get-component operation returns the token map as a component:
\* GET /mcp/component/_tokens is answered 404, and the tool call
\* get_component with the name `_tokens` and a read of
\* primevue://component/_tokens end in a failure, in every letter case of
\* the name.
C21_ReservedNameNotFound ==
    /\ (ComponentAnswered /\ IsReservedName(resp.name)) => resp.status = "404"
    /\ (/\ resp.server = "mcp"
        /\ resp.op = "get_component"
        /\ resp.q.t = "string"
        /\ IsReservedName(resp.q.v)) => resp.status = "error"
    /\ (/\ resp.server = "mcp"
        /\ resp.op = "resources/read"
        /\ startsWith(resp.q.v, s_componentUri)
        /\ IsReservedName(uriComponentName(resp.q.v))) => resp.status = "error"

---------------------------------------------------------------------------
(* The key sets of the cache *)

MemoMaps == {"components", "tokens", "search"}

\* The time stamps are those of the memoized keys, and no key is in two maps
StampsAreMemoKeys ==
    /\ DOMAIN cache.timestamps = UNION {DOMAIN cache[which] : which \in MemoMaps}
    /\ \A a, b \in MemoMaps : a # b => DOMAIN cache[a] \cap DOMAIN cache[b] = {}

\* A step that ends in an answer 400, 404 or 500 of the Query API
FailureAnswered ==
    /\ resp' # resp
    /\ resp'.server = "api"
    /\ resp'.status \in {"400", "404", "500"}

\* C22: in every reachable state of the Query API the key set of the time-stamp
\* map is the union of the key sets of the components, tokens and search maps,
\* which are pairwise disjoint; totalEntries of GET /cache/stats is the number
\* of time stamps; a handler that answers 400, 404 or 500 adds no entry.
C22_StampKeysAreMemoKeys ==
    /\ [](/\ StampsAreMemoKeys
          /\ cacheStats(cache).totalEntries = Cardinality(DOMAIN cache.timestamps)
          /\ (resp.server = "api" /\ resp.op = "stats") =>
                 resp.body.totalEntries = Cardinality(DOMAIN cache.timestamps))
    /\ [][FailureAnswered => cache' = cache]_vars

\* GET /cache/stats is answered with one entry in each of the three maps
C22_Witness ==
    /\ resp.server = "api"
    /\ resp.op = "stats"
    /\ resp.body.totalEntries = 3
    /\ \A which \in MemoMaps : DOMAIN cache[which] # {}
====
